---- MODULE Spec2Model ----
(***************************************************************************)
(* Model of the go-rest resource-handler dispatch pipeline:                *)
(*   - server/handler.go : BaseResourceHandler stubs, the five verb        *)
(*     handler factories of requestHandler and sendResponse;               *)
(*   - package rest      : BaseResourceHandler defaults and                *)
(*     resourceHandlerProxy (ResourceName, Rules, the five URI getters).   *)
(* Spec      checks the request handlers, ProxySpec the handler proxy.     *)
(***************************************************************************)
EXTENDS Integers, Sequences, FiniteSets, TLC

VARIABLES
    registered,   \* formats for which the RestApi has a serializer registered
    impl,         \* which operation functions the handlers were built from
    req,          \* the request handled last
    op,           \* what the operation function returned for that request
    calls,        \* number of times the operation function ran for that request
    w,            \* the http.ResponseWriter of that request: the writes made to it
    panicked,     \* the handler goroutine of that request ended in a panic
    wrapped,      \* the ResourceHandler wrapped by the resourceHandlerProxy
    out           \* the outcome of the last call on the proxy

vars == <<registered, impl, req, op, calls, w, panicked, wrapped, out>>

\* ---------------------------------------------------------------- bounds
NumResources == 2
MaxList == 2
MaxRules == 2

\* ---------------------------------------------------------------- values
Nil == 0                       \* the nil Resource
NoErr == "nil"                 \* the nil error
Resources == 1..NumResources
Formats == {"json", "xml", "yaml"}
Cursors == {"", "c1"}
Verbs == {"create", "readList", "read", "update", "delete"}
Impls == {"user", "server.Base", "rest.Base"}

StatusOK == 200
StatusCreated == 201
StatusInternalServerError == 500
StatusNotImplemented == 501

Lists == UNION {[1..n -> Resources] : n \in 0..MaxList}

\* ------------------------------------------------- the operation functions
\* A return of an operation function: panic, or (res, cursor, err).
Return(res, cursor, err) == [panic |-> FALSE, res |-> res, cursor |-> cursor, err |-> err]
Panic == [panic |-> TRUE, res |-> Nil, cursor |-> "", err |-> NoErr]
NoCall == [panic |-> FALSE, res |-> Nil, cursor |-> "", err |-> "not called"]

\* server.BaseResourceHandler: every CRUD stub panics.
ServerBaseResourceHandler(verb) == {Panic}

\* rest.BaseResourceHandler: every CRUD stub returns nil and NotImplemented.
RestBaseResourceHandler(verb) ==
    IF verb = "readList" THEN {Return(<<>>, "", "NotImplemented")}
    ELSE {Return(Nil, "", "NotImplemented")}

\* A caller-supplied implementation of the ResourceHandler interface: any
\* resource (or nil) together with any error (or nil).
ResourceHandler(verb) ==
    IF verb = "readList"
    THEN {Return(l, c, e) : l \in Lists, c \in Cursors, e \in {NoErr, "HandlerError"}}
    ELSE {Return(x, "", e) : x \in {Nil} \cup Resources, e \in {NoErr, "HandlerError"}}

opFunc(verb) ==
    CASE impl = "server.Base" -> ServerBaseResourceHandler(verb)
      [] impl = "rest.Base" -> RestBaseResourceHandler(verb)
      [] OTHER -> ResourceHandler(verb)

\* ------------------------------------------------------- context.RequestContext
NewContext(r) ==
    [format |-> r.format, result |-> Nil, cursor |-> "", error |-> NoErr, status |-> 0]
SetError(ctx, err) == [ctx EXCEPT !.error = err]
SetStatus(ctx, status) == [ctx EXCEPT !.status = status]
SetResult(ctx, result) == [ctx EXCEPT !.result = result]
SetCursor(ctx, cursor) == [ctx EXCEPT !.cursor = cursor]
NextURL(ctx) == IF ctx.cursor = "" THEN "" ELSE "?next=" \o ctx.cursor

\* ------------------------------------------------------------ sendResponse
responseSerializer(format) ==
    IF format \in registered
    THEN [serializer |-> format, err |-> NoErr]
    ELSE [serializer |-> "none", err |-> "UnsupportedFormat"]

sendErrorResponse(serializer, err, status) ==
    [kind |-> "error", serializer |-> serializer, status |-> status,
     err |-> err, result |-> Nil, next |-> ""]

sendSuccessResponse(serializer, result, nextURL, status) ==
    [kind |-> "success", serializer |-> serializer, status |-> status,
     err |-> NoErr, result |-> result, next |-> nextURL]

\* sendResponse keeping an error the context already carries when the format
\* is unsupported.
sendResponse_KeepError(wr, ctx) ==
    LET found == responseSerializer(ctx.format)
        serializer == IF found.err # NoErr THEN "json" ELSE found.serializer
        status == IF found.err # NoErr /\ ctx.error = NoErr
                  THEN StatusNotImplemented ELSE ctx.status
        requestError == IF ctx.error # NoErr THEN ctx.error ELSE found.err
    IN  IF requestError # NoErr
        THEN Append(wr, sendErrorResponse(serializer, requestError,
                 IF status < 400 THEN StatusInternalServerError ELSE status))
        ELSE Append(wr, sendSuccessResponse(serializer, ctx.result, NextURL(ctx), status))

\* sendResponse without the escalation of a status below 400.
sendResponse_NoEscalate(wr, ctx) ==
    LET found == responseSerializer(ctx.format)
        serializer == IF found.err # NoErr THEN "json" ELSE found.serializer
        status == IF found.err # NoErr THEN StatusNotImplemented ELSE ctx.status
        requestError == IF found.err # NoErr THEN found.err ELSE ctx.error
    IN  IF requestError # NoErr
        THEN Append(wr, sendErrorResponse(serializer, requestError, status))
        ELSE Append(wr, sendSuccessResponse(serializer, ctx.result, NextURL(ctx), status))

\* The writes on wr after sendResponse(wr, ctx).
sendResponse(wr, ctx) ==
    LET found == responseSerializer(ctx.format)
        serializer == IF found.err # NoErr THEN "json" ELSE found.serializer
        status == IF found.err # NoErr THEN StatusNotImplemented ELSE ctx.status
        requestError == IF found.err # NoErr THEN found.err ELSE ctx.error
    IN  IF requestError # NoErr
        THEN Append(wr, sendErrorResponse(serializer, requestError,
                 IF status < 400 THEN StatusInternalServerError ELSE status))
        ELSE Append(wr, sendSuccessResponse(serializer, ctx.result, NextURL(ctx), status))

\* ------------------------------------------------------- the verb handlers
\* The context each handler hands to sendResponse, given the request r and
\* the return ret of the operation function (unused when the decode failed).
\* handleCreate recording the status of a failed decode but not its error.
handleCreate_NoDecodeError(r, ret) ==
    LET ctx == NewContext(r) IN
    IF ~r.bodyOk
    THEN SetStatus(ctx, StatusInternalServerError)
    ELSE LET c == SetStatus(SetResult(ctx, ret.res), StatusCreated)
         IN  IF ret.err # NoErr THEN SetError(c, ret.err) ELSE c

\* handleCreate with the default status of the other verbs.
handleCreate_StatusOK(r, ret) ==
    LET ctx == NewContext(r) IN
    IF ~r.bodyOk
    THEN SetStatus(SetError(ctx, "DecodeError"), StatusInternalServerError)
    ELSE LET c == SetStatus(SetResult(ctx, ret.res), StatusOK)
         IN  IF ret.err # NoErr THEN SetError(c, ret.err) ELSE c

handleCreate(r, ret) ==
    LET ctx == NewContext(r) IN
    IF ~r.bodyOk
    THEN SetStatus(SetError(ctx, "DecodeError"), StatusInternalServerError)
    ELSE LET c == SetStatus(SetResult(ctx, ret.res), StatusCreated)
         IN  IF ret.err # NoErr THEN SetError(c, ret.err) ELSE c

handleReadList(r, ret) ==
    SetStatus(SetError(SetCursor(SetResult(NewContext(r), ret.res), ret.cursor),
                       ret.err), StatusOK)

handleRead(r, ret) ==
    SetStatus(SetError(SetResult(NewContext(r), ret.res), ret.err), StatusOK)

\* handleUpdate not recording the error of the update function.
handleUpdate_DropError(r, ret) ==
    LET ctx == NewContext(r) IN
    IF ~r.bodyOk
    THEN SetStatus(SetError(ctx, "DecodeError"), StatusInternalServerError)
    ELSE SetStatus(SetResult(ctx, ret.res), StatusOK)

handleUpdate(r, ret) ==
    LET ctx == NewContext(r) IN
    IF ~r.bodyOk
    THEN SetStatus(SetError(ctx, "DecodeError"), StatusInternalServerError)
    ELSE SetStatus(SetError(SetResult(ctx, ret.res), ret.err), StatusOK)

handleDelete(r, ret) ==
    SetStatus(SetError(SetResult(NewContext(r), ret.res), ret.err), StatusOK)

handle(r, ret) ==
    CASE r.verb = "create" -> handleCreate(r, ret)
      [] r.verb = "readList" -> handleReadList(r, ret)
      [] r.verb = "read" -> handleRead(r, ret)
      [] r.verb = "update" -> handleUpdate(r, ret)
      [] r.verb = "delete" -> handleDelete(r, ret)

\* One request served by the HandlerFunc of verb: a fresh ResponseWriter, the
\* body decode (create and update only), the operation function, sendResponse.
\* A panic of the operation function unwinds the HandlerFunc before
\* sendResponse is reached.
Serve(verb, hasBody) ==
    \E format \in Formats, bodyOk \in (IF hasBody THEN BOOLEAN ELSE {TRUE}) :
        LET r == [verb |-> verb, format |-> format, bodyOk |-> bodyOk] IN
        /\ req' = r
        /\ IF ~bodyOk
           THEN /\ op' = NoCall
                /\ calls' = 0
                /\ panicked' = FALSE
                /\ w' = sendResponse(<<>>, handle(r, NoCall))
           ELSE \E ret \in opFunc(verb) :
                /\ op' = ret
                /\ calls' = 1
                /\ panicked' = ret.panic
                /\ w' = IF ret.panic THEN <<>> ELSE sendResponse(<<>>, handle(r, ret))
        /\ UNCHANGED <<registered, impl, wrapped, out>>

HandleCreate == Serve("create", TRUE)
HandleReadList == Serve("readList", FALSE)
HandleRead == Serve("read", FALSE)
HandleUpdate == Serve("update", TRUE)
HandleDelete == Serve("delete", FALSE)

\* ------------------------------------------------ rest.resourceHandlerProxy
versionKey == "version"
resourceIDKey == "resource_id"

Names == {"", "widgets", "users"}
CustomURIs == {"", "/custom"}
EmptyResources == {"nil", "Widget{}", "User{}"}

\* reflect.TypeOf: the nil Type for a nil interface value.
TypeOf(x) ==
    CASE x = "nil" -> "nil"
      [] x = "Widget{}" -> "Widget"
      [] x = "User{}" -> "User"

\* The Rules a wrapped handler returns: n rules, none tagged with a type yet.
RulesOf(n) == [i \in 1..n |-> [field |-> i, resourceType |-> "unset"]]

\* What a proxy method does: panic, or return a string or a set of rules.
Returns(url) == [panic |-> FALSE, url |-> url, rules |-> <<>>]
ReturnsRules(rules) == [panic |-> FALSE, url |-> "", rules |-> rules]
Panics == [panic |-> TRUE, url |-> "", rules |-> <<>>]

ResourceName(r) ==
    LET name == r.name IN
    IF name = "" THEN Panics ELSE Returns(name)

\* Rules is a slice of rule pointers: the assignment in the loop reaches the
\* rules that are returned. EmptyResource() is not checked for nil.
Rules(r) ==
    ReturnsRules([i \in DOMAIN r.rules |->
        [r.rules[i] EXCEPT !.resourceType = TypeOf(r.emptyResource)]])

CreateURI(r) ==
    LET url == r.uri["create"] IN
    IF url = ""
    THEN IF ResourceName(r).panic THEN Panics
         ELSE Returns("/api/v{" \o versionKey \o ":[^/]+}/" \o ResourceName(r).url)
    ELSE Returns(url)

\* ReadURI with the format of the plural default.
ReadURI_Plural(r) ==
    LET url == r.uri["read"] IN
    IF url = ""
    THEN IF ResourceName(r).panic THEN Panics
         ELSE Returns("/api/v{" \o versionKey \o ":[^/]+}/" \o ResourceName(r).url)
    ELSE Returns(url)

ReadURI(r) ==
    LET url == r.uri["read"] IN
    IF url = ""
    THEN IF ResourceName(r).panic THEN Panics
         ELSE Returns("/api/v{" \o versionKey \o ":[^/]+}/" \o ResourceName(r).url
                      \o "/{" \o resourceIDKey \o "}")
    ELSE Returns(url)

ReadListURI(r) ==
    LET url == r.uri["readList"] IN
    IF url = ""
    THEN IF ResourceName(r).panic THEN Panics
         ELSE Returns("/api/v{" \o versionKey \o ":[^/]+}/" \o ResourceName(r).url)
    ELSE Returns(url)

UpdateURI(r) ==
    LET url == r.uri["update"] IN
    IF url = ""
    THEN IF ResourceName(r).panic THEN Panics
         ELSE Returns("/api/v{" \o versionKey \o ":[^/]+}/" \o ResourceName(r).url
                      \o "/{" \o resourceIDKey \o "}")
    ELSE Returns(url)

\* DeleteURI reads the name from the wrapped handler, not through the proxy.
DeleteURI(r) ==
    LET url == r.uri["delete"] IN
    IF url = ""
    THEN Returns("/api/v{" \o versionKey \o ":[^/]+}/" \o r.name
                 \o "/{" \o resourceIDKey \o "}")
    ELSE Returns(url)

Call(name, result) ==
    /\ out' = [call |-> name, panic |-> result.panic, url |-> result.url,
               rules |-> result.rules]
    /\ UNCHANGED <<wrapped, registered, impl, req, op, calls, w, panicked>>

ProxyResourceName == Call("ResourceName", ResourceName(wrapped))
ProxyRules == Call("Rules", Rules(wrapped))
ProxyCreateURI == Call("CreateURI", CreateURI(wrapped))
ProxyReadURI == Call("ReadURI", ReadURI(wrapped))
ProxyReadListURI == Call("ReadListURI", ReadListURI(wrapped))
ProxyUpdateURI == Call("UpdateURI", UpdateURI(wrapped))
ProxyDeleteURI == Call("DeleteURI", DeleteURI(wrapped))

NoRequest == [verb |-> "none", format |-> "json", bodyOk |-> TRUE]
NoOutcome == [call |-> "none", panic |-> FALSE, url |-> "", rules |-> <<>>]
BaseWrapped ==
    [name |-> "", uri |-> [v \in Verbs |-> ""], rules |-> <<>>, emptyResource |-> "nil"]

Init ==
    /\ registered \in SUBSET Formats
    /\ impl \in Impls
    /\ req = NoRequest
    /\ op = NoCall
    /\ calls = 0
    /\ w = <<>>
    /\ panicked = FALSE
    /\ wrapped = BaseWrapped
    /\ out = NoOutcome

Next ==
    \/ HandleCreate
    \/ HandleReadList
    \/ HandleRead
    \/ HandleUpdate
    \/ HandleDelete

Spec == Init /\ [][Next]_vars

\* The proxy around any wrapped handler; no request is being served.
InitProxy ==
    /\ wrapped \in [name : Names, uri : [Verbs -> CustomURIs],
                    rules : {RulesOf(n) : n \in 0..MaxRules},
                    emptyResource : EmptyResources]
    /\ out = NoOutcome
    /\ registered = {"json"}
    /\ impl = "user"
    /\ req = NoRequest
    /\ op = NoCall
    /\ calls = 0
    /\ w = <<>>
    /\ panicked = FALSE

NextProxy ==
    \/ ProxyResourceName
    \/ ProxyRules
    \/ ProxyCreateURI
    \/ ProxyReadURI
    \/ ProxyReadListURI
    \/ ProxyUpdateURI
    \/ ProxyDeleteURI

ProxySpec == InitProxy /\ [][NextProxy]_vars

\* ================================================================ properties
Handled == req.verb # "none"
DecodeFailed == Handled /\ req.verb \in {"create", "update"} /\ ~req.bodyOk
FormatRegistered == req.format \in registered
OpReturnedError == calls = 1 /\ ~op.panic /\ op.err # NoErr
OpReturnedNoError == calls = 1 /\ ~op.panic /\ op.err = NoErr
DefaultStatus == IF req.verb = "create" THEN 201 ELSE 200

\* C1 (as stated): whenever the body decode of a create or update request
\* fails, the single response is an error response carrying the decode error
\* at status 500, and the operation function was not invoked.
C1_Original ==
    DecodeFailed =>
        /\ calls = 0
        /\ Len(w) = 1
        /\ w[1].kind = "error"
        /\ w[1].err = "DecodeError"
        /\ w[1].status = 500

\* C1 (amended): whenever the body decode of a create or update request fails,
\* the operation function is not invoked and the response is an error
\* response; when the request's format is registered it carries the decode
\* error at status 500.
C1_DecodeFailure ==
    DecodeFailed =>
        /\ calls = 0
        /\ op = NoCall
        /\ Len(w) = 1
        /\ w[1].kind = "error"
        /\ FormatRegistered => (w[1].err = "DecodeError" /\ w[1].status = 500)

C1_Witness ==
    /\ DecodeFailed
    /\ FormatRegistered
    /\ req.verb = "update"
    /\ w[1].err = "DecodeError"

\* C2: for every verb, when the request's format has no registered serializer,
\* sendResponse writes an error response through the JSON serializer at status
\* 501 carrying the unsupported-format error, whatever the handler recorded.
C2_UnsupportedFormat ==
    (Handled /\ ~panicked /\ ~FormatRegistered) =>
        w = <<[kind |-> "error", serializer |-> "json", status |-> 501,
               err |-> "UnsupportedFormat", result |-> Nil, next |-> ""]>>

C2_Witness ==
    /\ DecodeFailed
    /\ ~FormatRegistered
    /\ Len(w) = 1
    /\ w[1].status = 501

\* C3: for every verb, when the format is registered and the operation
\* function returns a non-nil error, the response is an error response at
\* status 500, never one at the verb's default success status.
C3_OperationError ==
    (Handled /\ FormatRegistered /\ OpReturnedError) =>
        /\ Len(w) = 1
        /\ w[1].kind = "error"
        /\ w[1].err = op.err
        /\ w[1].status = 500
        /\ w[1].status # DefaultStatus

C3_Witness ==
    /\ req.verb = "create"
    /\ FormatRegistered
    /\ op = Return(Nil, "", "HandlerError")
    /\ Len(w) = 1
    /\ w[1].status = 500

\* C4: for every request handled by a verb handler exactly one response is
\* written: never two, never none.
C4_ExactlyOneWrite == Handled => Len(w) = 1

\* C8: a request dispatched to an un-overridden BaseResourceHandler stub gets
\* a not-implemented error value back, does not panic, and ends in exactly one
\* error response.
C8_StubNotImplemented ==
    (Handled /\ impl \in {"server.Base", "rest.Base"} /\ calls = 1) =>
        /\ ~panicked
        /\ op.err = "NotImplemented"
        /\ Len(w) = 1
        /\ w[1].kind = "error"

\* C9: for every verb, when the format is registered, the body (if any)
\* decoded and the operation function returned a nil error, the response is a
\* success response carrying the returned result at 201 for create and 200
\* for the other verbs.
C9_Success ==
    (Handled /\ FormatRegistered /\ OpReturnedNoError) =>
        /\ Len(w) = 1
        /\ w[1].kind = "success"
        /\ w[1].result = op.res
        /\ w[1].serializer = req.format
        /\ w[1].status = (IF req.verb = "create" THEN 201 ELSE 200)

C9_Witness ==
    /\ req.verb = "create"
    /\ FormatRegistered
    /\ op = Return(1, "", NoErr)
    /\ Len(w) = 1
    /\ w[1].status = 201

\* C10: every response written is consistent: it is an error response exactly
\* when the decode failed, the operation returned an error or the format is
\* not registered; an error response has status 500 or 501 and a success
\* response status 200 or 201.
C10_Consistent ==
    \A i \in 1..Len(w) :
        /\ w[i].kind \in {"error", "success"}
        /\ (w[i].kind = "error") <=>
               (DecodeFailed \/ OpReturnedError \/ ~FormatRegistered)
        /\ (w[i].kind = "error") => (w[i].status \in {500, 501} /\ w[i].status >= 400)
        /\ (w[i].kind = "success") => (w[i].status \in {200, 201} /\ w[i].status < 400)

C10_Witness ==
    /\ req.verb = "update"
    /\ FormatRegistered
    /\ OpReturnedError
    /\ op.res # Nil
    /\ Len(w) = 1
    /\ w[1].kind = "error"

\* ------------------------------------------------------ proxy properties
URICalls == {"CreateURI", "ReadURI", "ReadListURI", "UpdateURI", "DeleteURI"}
VerbOf(call) ==
    CASE call = "CreateURI" -> "create"
      [] call = "ReadURI" -> "read"
      [] call = "ReadListURI" -> "readList"
      [] call = "UpdateURI" -> "update"
      [] call = "DeleteURI" -> "delete"

\* C5: for a wrapped handler whose ResourceName() is empty, ResourceName() and
\* every URI getter whose wrapped URI is unset panic; none returns a URI built
\* from the empty name.
C5_EmptyNameFails ==
    (wrapped.name = "" /\
     (out.call = "ResourceName" \/
      (out.call \in URICalls /\ wrapped.uri[VerbOf(out.call)] = ""))) =>
        out.panic

\* C6: for a wrapped handler with a non-empty name, each URI getter returns
\* the wrapped handler's URI unmodified when it is non-empty, and otherwise
\* /api/v{version}/name for create and read-list and
\* /api/v{version}/name/{resource_id} for read, update and delete.
C6_URIs ==
    (wrapped.name # "" /\ out.call \in URICalls) =>
        /\ ~out.panic
        /\ out.url =
             (IF wrapped.uri[VerbOf(out.call)] # ""
              THEN wrapped.uri[VerbOf(out.call)]
              ELSE IF out.call \in {"CreateURI", "ReadListURI"}
                   THEN "/api/v{version:[^/]+}/" \o wrapped.name
                   ELSE "/api/v{version:[^/]+}/" \o wrapped.name \o "/{resource_id}")

C6_Witness ==
    /\ wrapped.name = "widgets"
    /\ out.call = "ReadURI"
    /\ wrapped.uri["read"] = ""
    /\ out.url = "/api/v{version:[^/]+}/widgets/{resource_id}"

\* C7: Rules() on a handler with non-empty rules fails (panics) when
\* EmptyResource() is nil, and otherwise returns every rule tagged with the
\* type of the empty resource.
C7_Rules ==
    (out.call = "Rules" /\ Len(wrapped.rules) > 0) =>
        IF wrapped.emptyResource = "nil"
        THEN out.panic
        ELSE /\ ~out.panic
             /\ Len(out.rules) = Len(wrapped.rules)
             /\ \A i \in 1..Len(out.rules) :
                    out.rules[i].resourceType = TypeOf(wrapped.emptyResource)
====
